---- MODULE Spec2Model ----
(***************************************************************************)
(* Model of src/src/context/AuthContext.tsx: the AuthProvider (session     *)
(* state holder) and the AuthForms dialog (credential form component).     *)
(*                                                                         *)
(* JavaScript runs every handler to its next await without interruption,   *)
(* so one action is one such run: the start of an async function up to its *)
(* await, or everything that follows the settling of the awaited promise   *)
(* (the rest of the try block, catch, finally and the continuation of the  *)
(* handler that awaited the function).  React re-renders after each run,   *)
(* which is the recomputation of the Provider value in every action.       *)
(***************************************************************************)
EXTENDS Integers, Sequences, FiniteSets, TLC

VARIABLES
    user,          \* useState<User | null>                     (line 20)
    isLoading,     \* useState(true)                            (line 21)
    value,         \* the value the Provider exposes            (lines 116-124)
    storage,       \* localStorage: partial map key -> string
    boot,          \* checkAuth: "pending" until getCurrentUser settles
    inflight,      \* axios.post calls issued and not yet settled
    logouts,       \* mockApiService.logout() calls not yet settled
    activeTab,     \* useState(defaultTab)                      (line 151)
    loginForm,     \* useState({email, password})               (line 152)
    registerForm,  \* useState({username, email, ...})          (line 153)
    formErrors,    \* useState<Record<string,string>>({})       (line 154)
    serverError,   \* useState<string | null>(null)             (line 155)
    isOpen,        \* the isOpen prop, owned by the embedding component
    ev             \* what the last run did: toasts, posts, promise outcome

holderVars == <<user, isLoading, value, storage, boot, inflight, logouts>>
formVars == <<activeTab, loginForm, registerForm, formErrors, serverError, isOpen>>
vars == <<user, isLoading, value, storage, boot, inflight, logouts,
          activeTab, loginForm, registerForm, formErrors, serverError, isOpen, ev>>

----------------------------------------------------------------------------
(* Bounds *)

\* axios.post calls that may be outstanding at once
MaxInFlight == 2
\* mockApiService.logout() calls that may be outstanding at once
MaxLogouts == 1
\* longest e-mail text enumerated for the validators
MaxEmailLen == 6

----------------------------------------------------------------------------
(* JavaScript values *)

NULL == [type |-> "null"]
UNDEFINED == [type |-> "undefined"]
Str(s) == [type |-> "string", val |-> s]

ash == [type |-> "object", id |-> 1, username |-> "ash"]
misty == [type |-> "object", id |-> 2, username |-> "misty"]
Users == {ash, misty}

\* !!v
ToBoolean(v) ==
    CASE v.type = "null" -> FALSE
      [] v.type = "undefined" -> FALSE
      [] v.type = "string" -> v.val # ""
      [] OTHER -> TRUE

\* a || b
OrElse(a, b) == IF ToBoolean(a) THEN a ELSE b

\* JSON.stringify of a User object, as the sequence of its tokens
JSONstringify(u) == <<"{", "id", ":", u.id, ",", "username", ":", u.username, "}">>

\* JSON.parse, the inverse of JSONstringify on its range
JSONparse(s) ==
    IF Len(s) = 9 /\ s[1] = "{" /\ s[2] = "id" /\ s[6] = "username" /\ s[9] = "}"
    THEN [type |-> "object", id |-> s[4], username |-> s[8]]
    ELSE UNDEFINED

\* localStorage.setItem(key, v)
setItem(stor, key, v) ==
    [k \in DOMAIN stor \cup {key} |-> IF k = key THEN v ELSE stor[k]]

\* localStorage.getItem(key): null when the key is absent
getItem(stor, key) == IF key \in DOMAIN stor THEN Str(stor[key]) ELSE NULL

EmptyStorage == [k \in {} |-> ""]

----------------------------------------------------------------------------
(* Notifications, errors and responses *)

Toast(title, description) ==
    [title |-> title, description |-> description, variant |-> "default"]
Destructive(title, description) ==
    [title |-> title, description |-> description, variant |-> "destructive"]

\* an Error as the code reads it: error.message and error.response?.data
Error(message, body) == [type |-> "error", message |-> message, body |-> body]
NoError == [type |-> "none", message |-> UNDEFINED, body |-> UNDEFINED]

\* the body of an error response: { error?, message? }
Body(error, message) == [type |-> "object", error |-> error, message |-> message]

\* error.response?.data?.<key>
Payload(err, key) == IF err.body.type = "object" THEN err.body[key] ELSE UNDEFINED

\* TypeError raised by reading a property of undefined
TypeError == Error(Str("Cannot read properties of undefined"), UNDEFINED)

\* rejections of axios.post: no response at all, or a response with a body
AxiosErrors ==
    { Error(Str(""), UNDEFINED),
      Error(Str("Network Error"), UNDEFINED),
      Error(Str("Request failed with status code 401"),
            Body(Str("Invalid credentials"), UNDEFINED)),
      Error(Str("Request failed with status code 400"),
            Body(UNDEFINED, Str("User already exists"))) }

\* rejections of the mockApiService calls
ApiErrors == { Error(UNDEFINED, UNDEFINED), Error(Str("Logout error"), UNDEFINED) }

Rejected(err) == [ok |-> FALSE, error |-> err, data |-> UNDEFINED]
Fulfilled(data) == [ok |-> TRUE, error |-> NoError, data |-> data]

\* res.data: an object with optional token and user, or no body at all
Data(token, usr) == [type |-> "object", token |-> token, user |-> usr]

LoginResponses ==
    { Rejected(e) : e \in AxiosErrors } \cup
    { Fulfilled(UNDEFINED),
      Fulfilled(Data(UNDEFINED, ash)),
      Fulfilled(Data(Str(""), ash)),
      Fulfilled(Data(Str("t1"), UNDEFINED)),
      Fulfilled(Data(Str("t1"), ash)),
      Fulfilled(Data(Str("t2"), misty)) }

RegisterResponses ==
    { Rejected(e) : e \in AxiosErrors } \cup
    { Fulfilled(UNDEFINED),
      Fulfilled(Data(UNDEFINED, UNDEFINED)),
      Fulfilled(Data(UNDEFINED, ash)),
      Fulfilled(Data(UNDEFINED, misty)) }

----------------------------------------------------------------------------
(* The last run *)

\* op and caller name the run, input is the value it was given (the settled
\* response, the argument of updateUser), toasts and posted are the calls it
\* made to toast() and axios.post(), outcome is what became of the promise
\* of login / register / logout, onClose counts the calls of onClose()
Event(op, caller, input, toasts, posted, outcome, onClose) ==
    [op |-> op, caller |-> caller, input |-> input, toasts |-> toasts,
     posted |-> posted, outcome |-> outcome, onClose |-> onClose]

NoEvent == Event("mount", "none", UNDEFINED, <<>>, <<>>, "none", 0)

----------------------------------------------------------------------------
(* AuthProvider *)

\* the Provider value with the flag computed as `user !== null`
ProviderValueStrictNull(u, loading) ==
    [user |-> u, isAuthenticated |-> u # NULL, isLoading |-> loading]

\* the Provider value of lines 116-124
ProviderValue(u, loading) ==
    [user |-> u, isAuthenticated |-> ToBoolean(u), isLoading |-> loading]

CallKinds == { <<"login", "form">>, <<"login", "api">>,
               <<"register", "form">>, <<"register", "api">> }

RECURSIVE SumOver(_, _)
SumOver(f, S) ==
    IF S = {} THEN 0
    ELSE LET k == CHOOSE k \in S : TRUE IN f[k] + SumOver(f, S \ {k})

InFlightCount == SumOver(inflight, CallKinds)

\* text of a JavaScript string, for a notification
Text(v) == <<v.val>>

\* what a run of the code after an await leaves behind
Result(stor, usr, toasts, thrown) ==
    [storage |-> stor, user |-> usr, toasts |-> toasts, thrown |-> thrown]

\* login with the user adopted before the token is looked at
loginTryAdoptsFirst(res, stor, usr) ==
    IF ~res.ok THEN Result(stor, usr, <<>>, res.error)
    ELSE IF res.data.type # "object" THEN Result(stor, usr, <<>>, TypeError)
    ELSE IF ~ToBoolean(res.data.token)
         THEN Result(stor, res.data.user, <<>>,
                     Error(Str("Login failed. No token."), UNDEFINED))
    ELSE IF res.data.user.type # "object"
         THEN Result(setItem(stor, "token", res.data.token.val), res.data.user,
                     <<>>, TypeError)
    ELSE Result(setItem(stor, "token", res.data.token.val), res.data.user,
                <<Toast("Welcome back!", <<"Logged in as ", res.data.user.username>>)>>,
                NoError)

\* login with the token kept in memory only
loginTryNoPersist(res, stor, usr) ==
    IF ~res.ok THEN Result(stor, usr, <<>>, res.error)
    ELSE IF res.data.type # "object" THEN Result(stor, usr, <<>>, TypeError)
    ELSE IF ~ToBoolean(res.data.token)
         THEN Result(stor, usr, <<>>, Error(Str("Login failed. No token."), UNDEFINED))
    ELSE IF res.data.user.type # "object"
         THEN Result(stor, res.data.user, <<>>, TypeError)
    ELSE Result(stor, res.data.user,
                <<Toast("Welcome back!", <<"Logged in as ", res.data.user.username>>)>>,
                NoError)

\* login that keeps a token already in storage
loginTryKeepsFirstToken(res, stor, usr) ==
    IF ~res.ok THEN Result(stor, usr, <<>>, res.error)
    ELSE IF res.data.type # "object" THEN Result(stor, usr, <<>>, TypeError)
    ELSE IF ~ToBoolean(res.data.token)
         THEN Result(stor, usr, <<>>, Error(Str("Login failed. No token."), UNDEFINED))
    ELSE LET stor1 == IF "token" \in DOMAIN stor THEN stor
                      ELSE setItem(stor, "token", res.data.token.val)
             usr1 == res.data.user
         IN  IF usr1.type # "object"
             THEN Result(stor1, usr1, <<>>, TypeError)
             ELSE Result(stor1, usr1,
                         <<Toast("Welcome back!", <<"Logged in as ", usr1.username>>)>>,
                         NoError)

\* login, lines 42-55: the try block once axios.post has settled with res
loginTry(res, stor, usr) ==
    IF ~res.ok THEN Result(stor, usr, <<>>, res.error)
    ELSE IF res.data.type # "object" THEN Result(stor, usr, <<>>, TypeError)
    ELSE IF ~ToBoolean(res.data.token)
         THEN Result(stor, usr, <<>>, Error(Str("Login failed. No token."), UNDEFINED))
    ELSE LET stor1 == setItem(stor, "token", res.data.token.val)
             usr1 == res.data.user
         IN  IF usr1.type # "object"
             THEN Result(stor1, usr1, <<>>, TypeError)
             ELSE Result(stor1, usr1,
                         <<Toast("Welcome back!", <<"Logged in as ", usr1.username>>)>>,
                         NoError)

\* login with a catch block that notifies and does not re-throw
loginCatchSwallows(r) ==
    IF r.thrown = NoError THEN r
    ELSE [r EXCEPT !.toasts = Append(@,
             Destructive("Login failed",
                 Text(OrElse(r.thrown.message, Str("An error occurred during login"))))),
                   !.thrown = NoError]

\* login, lines 56-62: the catch block
loginCatch(r) ==
    IF r.thrown = NoError THEN r
    ELSE [r EXCEPT !.toasts = Append(@,
             Destructive("Login failed",
                 Text(OrElse(r.thrown.message, Str("An error occurred during login")))))]

\* login with setIsLoading(false) at the end of the try block only
loginFinallyOnSuccess(r) == r.thrown # NoError

\* login, lines 63-65: the finally block, setIsLoading(false)
loginFinally(r) == FALSE

\* register, lines 71-77: the try block once axios.post has settled with res
registerTry(res, stor, usr) ==
    IF ~res.ok THEN Result(stor, usr, <<>>, res.error)
    ELSE IF res.data.type # "object" THEN Result(stor, usr, <<>>, TypeError)
    ELSE LET usr1 == res.data.user
         IN  IF usr1.type # "object"
             THEN Result(stor, usr1, <<>>, TypeError)
             ELSE Result(stor, usr1,
                         <<Toast("Registration successful!",
                                 <<"Welcome, ", usr1.username, "!">>)>>,
                         NoError)

\* register, lines 78-84: the catch block
registerCatch(r) ==
    IF r.thrown = NoError THEN r
    ELSE [r EXCEPT !.toasts = Append(@,
             Destructive("Registration failed",
                 Text(OrElse(r.thrown.message,
                             Str("An error occurred during registration")))))]

\* register, lines 85-87: the finally block, setIsLoading(false)
registerFinally(r) == FALSE

\* logout that clears the user whatever mockApiService.logout() answers
logoutSettledForced(res, stor, usr) ==
    IF res.ok
    THEN Result(stor, NULL,
                <<Toast("Logged out", <<"You have been successfully logged out">>)>>,
                NoError)
    ELSE Result(stor, NULL,
                <<Destructive("Logout failed",
                      Text(OrElse(res.error.message,
                                  Str("An error occurred during logout"))))>>,
                NoError)

\* logout, lines 92-104, once mockApiService.logout() has settled with res
logoutSettled(res, stor, usr) ==
    IF res.ok
    THEN Result(stor, NULL,
                <<Toast("Logged out", <<"You have been successfully logged out">>)>>,
                NoError)
    ELSE Result(stor, usr,
                <<Destructive("Logout failed",
                      Text(OrElse(res.error.message,
                                  Str("An error occurred during logout"))))>>,
                NoError)

\* updateUser without the write to localStorage
updateUserResultNoPersist(updatedUser, stor, usr) ==
    Result(stor, updatedUser, <<>>, NoError)

\* updateUser, lines 107-112
updateUserResult(updatedUser, stor, usr) ==
    Result(setItem(stor, "user", JSONstringify(updatedUser)), updatedUser, <<>>, NoError)

\* one more / one fewer outstanding axios.post of the given kind
Issue(calls, kind) == [calls EXCEPT ![kind] = @ + 1]
Settle(calls, kind) == [calls EXCEPT ![kind] = @ - 1]

Post(url, body) == [url |-> url, body |-> body]
LoginUrl == "http://localhost:5000/api/auth/login"
RegisterUrl == "http://localhost:5000/api/auth/register"

----------------------------------------------------------------------------
(* AuthForms: texts and validators *)

\* the characters texts are made of; " " is the only white space among them
Chars == {"a", "@", ".", " "}
IsSpace(c) == c = " "

Empty == <<>>
goodEmail == <<"a", "@", "a", ".", "a">>
badEmail == <<"a", "a">>
pw3 == <<"a", "b", "c">>
pw6 == <<"a", "b", "c", "d", "e", "f">>
pw6g == <<"a", "b", "c", "d", "e", "g">>
nameAsh == <<"a", "s", "h">>

\* the states of a matcher for /\S+@\S+\.\S+/ : how much of the pattern
\* has been matched by a prefix ending at the current character
\*   1: \S+      2: \S+@      3: \S+@\S+      4: \S+@\S+\.      5: all of it
Advance(Q, c) ==
    (IF ~IsSpace(c) THEN {1} ELSE {}) \cup
    (IF c = "@" /\ 1 \in Q THEN {2} ELSE {}) \cup
    (IF ~IsSpace(c) /\ (2 \in Q \/ 3 \in Q) THEN {3} ELSE {}) \cup
    (IF c = "." /\ 3 \in Q THEN {4} ELSE {}) \cup
    (IF ~IsSpace(c) /\ 4 \in Q THEN {5} ELSE {})

RECURSIVE Scan(_, _, _)
Scan(s, i, Q) ==
    IF 5 \in Q THEN TRUE
    ELSE IF i > Len(s) THEN FALSE
    ELSE Scan(s, i + 1, Advance(Q, s[i]))

\* /\S+@\S+\.\S+/.test(s), line 170: a match anywhere in s
EmailRegexTest(s) == Scan(s, 1, {})

\* errors.<key> = msg
Put(errors, key, msg) ==
    [k \in DOMAIN errors \cup {key} |-> IF k = key THEN msg ELSE errors[k]]

NoErrors == [k \in {} |-> ""]

\* the password length of line 172
MinPasswordLength == 6

\* validateLoginForm without the password rule
validateLoginFormEmailOnly(form) ==
    IF form.email = Empty
    THEN Put(NoErrors, "email", "Email is required") ELSE NoErrors

\* validateLoginForm, lines 159-164
validateLoginForm(form) ==
    LET e1 == IF form.email = Empty
              THEN Put(NoErrors, "email", "Email is required") ELSE NoErrors
        e2 == IF form.password = Empty
              THEN Put(e1, "password", "Password is required") ELSE e1
    IN  e2

\* validateRegisterForm with `length <= 6` for the password rule
validateRegisterFormOffByOne(form) ==
    LET e1 == IF form.username = Empty
              THEN Put(NoErrors, "username", "Username is required") ELSE NoErrors
        e2 == IF form.email = Empty THEN Put(e1, "email", "Email is required")
              ELSE IF ~EmailRegexTest(form.email) THEN Put(e1, "email", "Invalid email")
              ELSE e1
        e3 == IF form.password = Empty THEN Put(e2, "password", "Password is required")
              ELSE IF Len(form.password) <= MinPasswordLength
                   THEN Put(e2, "password", "Password must be at least 6 characters")
              ELSE e2
        e4 == IF form.password # form.confirmPassword
              THEN Put(e3, "confirmPassword", "Passwords do not match") ELSE e3
    IN  e4

\* validateRegisterForm, lines 166-176
validateRegisterForm(form) ==
    LET e1 == IF form.username = Empty
              THEN Put(NoErrors, "username", "Username is required") ELSE NoErrors
        e2 == IF form.email = Empty THEN Put(e1, "email", "Email is required")
              ELSE IF ~EmailRegexTest(form.email) THEN Put(e1, "email", "Invalid email")
              ELSE e1
        e3 == IF form.password = Empty THEN Put(e2, "password", "Password is required")
              ELSE IF Len(form.password) < MinPasswordLength
                   THEN Put(e2, "password", "Password must be at least 6 characters")
              ELSE e2
        e4 == IF form.password # form.confirmPassword
              THEN Put(e3, "confirmPassword", "Passwords do not match") ELSE e3
    IN  e4

----------------------------------------------------------------------------
(* Initial state: AuthProvider and AuthForms just mounted, dialog open *)

Init ==
    /\ user = NULL
    /\ isLoading = TRUE
    /\ value = ProviderValue(NULL, TRUE)
    /\ storage = EmptyStorage
    /\ boot = "pending"
    /\ inflight = [k \in CallKinds |-> 0]
    /\ logouts = 0
    /\ activeTab \in {"login", "register"}
    /\ loginForm = [email |-> Empty, password |-> Empty]
    /\ registerForm = [username |-> Empty, email |-> Empty,
                       password |-> Empty, confirmPassword |-> Empty]
    /\ formErrors = NoErrors
    /\ serverError = NULL
    /\ isOpen = TRUE
    /\ ev = NoEvent

----------------------------------------------------------------------------
(* AuthProvider: actions *)

\* what becomes of the promise of an async function
Outcome(thrown) == IF thrown = NoError THEN "resolved" ELSE "rejected"

\* checkAuth with setIsLoading(false) at the end of the try block only
checkAuthFinallyOnSuccess(res) == ~res.ok

\* checkAuth, lines 31-33: the finally block, setIsLoading(false)
checkAuthFinally(res) == FALSE

\* checkAuth, lines 26-30: getCurrentUser() settled with res; the error of
\* a rejection goes to console.error and no further
checkAuthSettled(res, stor, usr) ==
    IF res.ok
    THEN Result(stor, res.data, <<>>, NoError)
    ELSE Result(stor, usr, <<>>, NoError)

\* checkAuth, lines 25-34, once getCurrentUser() has settled with res
CheckAuthDone(res) ==
    /\ boot = "pending"
    /\ boot' = "done"
    /\ LET r == checkAuthSettled(res, storage, user)
       IN  /\ storage' = r.storage
           /\ user' = r.user
           /\ ev' = Event("checkAuth", "none", res, r.toasts, <<>>,
                          Outcome(r.thrown), 0)
    /\ isLoading' = checkAuthFinally(res)
    /\ value' = ProviderValue(user', isLoading')
    /\ UNCHANGED <<inflight, logouts>>
    /\ UNCHANGED formVars

\* checkAuth, lines 25-34: getCurrentUser() resolved with currentUser
CheckAuthResolved(currentUser) == CheckAuthDone(Fulfilled(currentUser))

\* checkAuth, lines 25-34: getCurrentUser() rejected
CheckAuthRejected == \E err \in ApiErrors : CheckAuthDone(Rejected(err))

\* login, lines 40-44: up to the await of axios.post
loginCalled(caller, credentials) ==
    /\ InFlightCount < MaxInFlight
    /\ isLoading' = TRUE
    /\ inflight' = Issue(inflight, <<"login", caller>>)
    /\ value' = ProviderValue(user, isLoading')
    /\ UNCHANGED <<user, storage, boot, logouts>>

\* register, lines 69-71: up to the await of axios.post
registerCalled(caller, credentials) ==
    /\ InFlightCount < MaxInFlight
    /\ isLoading' = TRUE
    /\ inflight' = Issue(inflight, <<"register", caller>>)
    /\ value' = ProviderValue(user, isLoading')
    /\ UNCHANGED <<user, storage, boot, logouts>>

\* a consumer of useAuth() other than AuthForms calls login
Login ==
    /\ loginCalled("api", [email |-> goodEmail, password |-> pw6])
    /\ ev' = Event("login", "api", UNDEFINED, <<>>,
                   <<Post(LoginUrl, [email |-> goodEmail, password |-> pw6])>>, "none", 0)
    /\ UNCHANGED formVars

\* a consumer of useAuth() other than AuthForms calls register
Register ==
    /\ registerCalled("api", [username |-> nameAsh, email |-> goodEmail, password |-> pw6])
    /\ ev' = Event("register", "api", UNDEFINED, <<>>,
                   <<Post(RegisterUrl,
                          [username |-> nameAsh, email |-> goodEmail, password |-> pw6])>>,
                   "none", 0)
    /\ UNCHANGED formVars

\* a handler that leaves the dialog open after a successful login
loginSubmitContinuedStaysOpen(thrown) ==
    IF thrown = NoError
    THEN UNCHANGED <<serverError, isOpen>>
    ELSE /\ serverError' = OrElse(Payload(thrown, "error"),
                                  Str("Login failed. Please try again."))
         /\ UNCHANGED isOpen

\* handleLoginSubmit, lines 191-196: after `await login(...)`
loginSubmitContinued(thrown) ==
    IF thrown = NoError
    THEN /\ isOpen' = FALSE
         /\ UNCHANGED serverError
    ELSE /\ serverError' = OrElse(Payload(thrown, "error"),
                                  Str("Login failed. Please try again."))
         /\ UNCHANGED isOpen

\* handleRegisterSubmit, lines 218-221: after `await register(...)`
registerSubmitContinued(thrown) ==
    IF thrown = NoError
    THEN /\ isOpen' = FALSE
         /\ UNCHANGED serverError
    ELSE /\ serverError' = OrElse(Payload(thrown, "message"),
                                  Str("Registration failed. Try a different email."))
         /\ UNCHANGED isOpen

Closes(caller, thrown) == IF caller = "form" /\ thrown = NoError THEN 1 ELSE 0

\* login, lines 45-65, then its caller: axios.post settled with res
LoginSettled(caller, res) ==
    /\ inflight[<<"login", caller>>] > 0
    /\ LET r == loginCatch(loginTry(res, storage, user))
       IN  /\ storage' = r.storage
           /\ user' = r.user
           /\ isLoading' = loginFinally(r)
           /\ value' = ProviderValue(user', isLoading')
           /\ inflight' = Settle(inflight, <<"login", caller>>)
           /\ ev' = Event("loginSettled", caller, res, r.toasts, <<>>,
                          Outcome(r.thrown), Closes(caller, r.thrown))
           /\ IF caller = "form" THEN loginSubmitContinued(r.thrown)
              ELSE UNCHANGED <<serverError, isOpen>>
    /\ UNCHANGED <<boot, logouts>>
    /\ UNCHANGED <<activeTab, loginForm, registerForm, formErrors>>

\* register, lines 72-87, then its caller: axios.post settled with res
RegisterSettled(caller, res) ==
    /\ inflight[<<"register", caller>>] > 0
    /\ LET r == registerCatch(registerTry(res, storage, user))
       IN  /\ storage' = r.storage
           /\ user' = r.user
           /\ isLoading' = registerFinally(r)
           /\ value' = ProviderValue(user', isLoading')
           /\ inflight' = Settle(inflight, <<"register", caller>>)
           /\ ev' = Event("registerSettled", caller, res, r.toasts, <<>>,
                          Outcome(r.thrown), Closes(caller, r.thrown))
           /\ IF caller = "form" THEN registerSubmitContinued(r.thrown)
              ELSE UNCHANGED <<serverError, isOpen>>
    /\ UNCHANGED <<boot, logouts>>
    /\ UNCHANGED <<activeTab, loginForm, registerForm, formErrors>>

\* logout, lines 90-92: up to the await of mockApiService.logout()
Logout ==
    /\ logouts < MaxLogouts
    /\ logouts' = logouts + 1
    /\ value' = ProviderValue(user, isLoading)
    /\ ev' = Event("logout", "api", UNDEFINED, <<>>, <<>>, "none", 0)
    /\ UNCHANGED <<user, isLoading, storage, boot, inflight>>
    /\ UNCHANGED formVars

\* logout, lines 93-104: mockApiService.logout() settled with res
LogoutSettled(res) ==
    /\ logouts > 0
    /\ logouts' = logouts - 1
    /\ LET r == logoutSettled(res, storage, user)
       IN  /\ storage' = r.storage
           /\ user' = r.user
           /\ ev' = Event("logoutSettled", "api", res, r.toasts, <<>>, "resolved", 0)
    /\ value' = ProviderValue(user', isLoading)
    /\ UNCHANGED <<isLoading, boot, inflight>>
    /\ UNCHANGED formVars

\* updateUser, lines 107-112
UpdateUser(updatedUser) ==
    /\ LET r == updateUserResult(updatedUser, storage, user)
       IN  /\ storage' = r.storage
           /\ user' = r.user
    /\ value' = ProviderValue(user', isLoading)
    /\ ev' = Event("updateUser", "api", updatedUser, <<>>, <<>>, "none", 0)
    /\ UNCHANGED <<isLoading, boot, inflight, logouts>>
    /\ UNCHANGED formVars

----------------------------------------------------------------------------
(* AuthForms: actions *)

\* the submit buttons are rendered with disabled={isLoading}, lines 261 and 303
SubmitEnabled == ~value.isLoading

LoginFieldValues == [email |-> {Empty, goodEmail}, password |-> {Empty, pw6}]
RegisterFieldValues ==
    [username |-> {Empty, nameAsh}, email |-> {Empty, goodEmail},
     password |-> {Empty, pw6}, confirmPassword |-> {Empty, pw6}]

\* Tabs onValueChange / SwitchTabMessage onClick, lines 235 and 356
SetActiveTab(tab) ==
    /\ isOpen
    /\ activeTab' = tab
    /\ ev' = Event("setActiveTab", tab, UNDEFINED, <<>>, <<>>, "none", 0)
    /\ UNCHANGED holderVars
    /\ UNCHANGED <<loginForm, registerForm, formErrors, serverError, isOpen>>

\* onChange of a login field, lines 249 and 257
SetLoginForm(field, val) ==
    /\ isOpen
    /\ activeTab = "login"
    /\ loginForm' = [loginForm EXCEPT ![field] = val]
    /\ ev' = Event("setLoginForm", "login", UNDEFINED, <<>>, <<>>, "none", 0)
    /\ UNCHANGED holderVars
    /\ UNCHANGED <<activeTab, registerForm, formErrors, serverError, isOpen>>

\* onChange of a register field, lines 275, 283, 291 and 299
SetRegisterForm(field, val) ==
    /\ isOpen
    /\ activeTab = "register"
    /\ registerForm' = [registerForm EXCEPT ![field] = val]
    /\ ev' = Event("setRegisterForm", "register", UNDEFINED, <<>>, <<>>, "none", 0)
    /\ UNCHANGED holderVars
    /\ UNCHANGED <<activeTab, loginForm, formErrors, serverError, isOpen>>

\* a submit handler that leaves the server error of an earlier attempt up
submitStartedKeepsServerError(errors) ==
    /\ formErrors' = errors
    /\ UNCHANGED serverError

\* handleLoginSubmit, lines 182-183, and handleRegisterSubmit, lines 208-209:
\* setFormErrors(errors); setServerError(null)
submitStarted(errors) ==
    /\ formErrors' = errors
    /\ serverError' = NULL

\* handleLoginSubmit, lines 179-190: up to the await inside login
HandleLoginSubmit ==
    /\ isOpen
    /\ activeTab = "login"
    /\ SubmitEnabled
    /\ LET errors == validateLoginForm(loginForm)
           credentials == [email |-> loginForm.email, password |-> loginForm.password]
       IN  /\ submitStarted(errors)
           /\ IF Cardinality(DOMAIN errors) = 0
              THEN /\ loginCalled("form", credentials)
                   /\ ev' = Event("handleLoginSubmit", "login", UNDEFINED, <<>>,
                                  <<Post(LoginUrl, credentials)>>, "none", 0)
              ELSE /\ UNCHANGED holderVars
                   /\ ev' = Event("handleLoginSubmit", "login", UNDEFINED, <<>>, <<>>, "none", 0)
    /\ UNCHANGED <<activeTab, loginForm, registerForm, isOpen>>

\* handleRegisterSubmit, lines 205-217: up to the await inside register
HandleRegisterSubmit ==
    /\ isOpen
    /\ activeTab = "register"
    /\ SubmitEnabled
    /\ LET errors == validateRegisterForm(registerForm)
           credentials == [username |-> registerForm.username,
                           email |-> registerForm.email,
                           password |-> registerForm.password]
       IN  /\ submitStarted(errors)
           /\ IF Cardinality(DOMAIN errors) = 0
              THEN /\ registerCalled("form", credentials)
                   /\ ev' = Event("handleRegisterSubmit", "register", UNDEFINED, <<>>,
                                  <<Post(RegisterUrl, credentials)>>, "none", 0)
              ELSE /\ UNCHANGED holderVars
                   /\ ev' = Event("handleRegisterSubmit", "register", UNDEFINED, <<>>, <<>>, "none", 0)
    /\ UNCHANGED <<activeTab, loginForm, registerForm, isOpen>>

\* Dialog onOpenChange(false), line 226: onClose()
DialogDismissed ==
    /\ isOpen
    /\ isOpen' = FALSE
    /\ ev' = Event("onOpenChange", "none", UNDEFINED, <<>>, <<>>, "none", 1)
    /\ UNCHANGED holderVars
    /\ UNCHANGED <<activeTab, loginForm, registerForm, formErrors, serverError>>

----------------------------------------------------------------------------
(* Specifications *)

CheckAuth ==
    \/ \E currentUser \in Users \cup {NULL} : CheckAuthResolved(currentUser)
    \/ CheckAuthRejected

ApiLoginSettled == \E res \in LoginResponses : LoginSettled("api", res)
ApiRegisterSettled == \E res \in RegisterResponses : RegisterSettled("api", res)
FormLoginSettled == \E res \in LoginResponses : LoginSettled("form", res)
FormRegisterSettled == \E res \in RegisterResponses : RegisterSettled("form", res)
LogoutDone ==
    \E res \in {Fulfilled(UNDEFINED)} \cup {Rejected(e) : e \in ApiErrors} :
        LogoutSettled(res)
UserUpdated == \E updatedUser \in Users : UpdateUser(updatedUser)
TabSwitched == \E tab \in {"login", "register"} : SetActiveTab(tab)
LoginFieldEdited ==
    \E field \in DOMAIN LoginFieldValues :
        \E val \in LoginFieldValues[field] : SetLoginForm(field, val)
RegisterFieldEdited ==
    \E field \in DOMAIN RegisterFieldValues :
        \E val \in RegisterFieldValues[field] : SetRegisterForm(field, val)

\* AuthProvider driven by the consumers of useAuth()
Next ==
    \/ CheckAuth
    \/ Login
    \/ Register
    \/ ApiLoginSettled
    \/ ApiRegisterSettled
    \/ Logout
    \/ LogoutDone
    \/ UserUpdated

Spec == Init /\ [][Next]_vars

\* AuthForms inside AuthProvider, driven by the user of the dialog
NextForm ==
    \/ CheckAuth
    \/ TabSwitched
    \/ LoginFieldEdited
    \/ RegisterFieldEdited
    \/ HandleLoginSubmit
    \/ HandleRegisterSubmit
    \/ FormLoginSettled
    \/ FormRegisterSettled
    \/ DialogDismissed

SpecForm == Init /\ [][NextForm]_vars

\* AuthForms when every call it issues is answered in the end
SpecFormFair ==
    /\ SpecForm
    /\ WF_vars(FormLoginSettled)
    /\ WF_vars(FormRegisterSettled)

\* all texts over Chars of length at most n
RECURSIVE TextsUpTo(_)
TextsUpTo(n) ==
    IF n = 0 THEN {Empty}
    ELSE LET shorter == TextsUpTo(n - 1)
         IN  shorter \cup {Append(t, c) : t \in {x \in shorter : Len(x) = n - 1}, c \in Chars}

pw5 == <<"a", "b", "c", "d", "e">>
pw7 == <<"a", "b", "c", "d", "e", "f", "g">>
Passwords == {Empty, pw3, pw5, pw6, pw6g, pw7}

TypedLoginForms ==
    {[email |-> e, password |-> p] : e \in {Empty, badEmail, goodEmail}, p \in Passwords}

TypedRegisterForms ==
    {[username |-> u, email |-> e, password |-> pw6, confirmPassword |-> pw6] :
        u \in {Empty, nameAsh}, e \in TextsUpTo(MaxEmailLen)} \cup
    {[username |-> u, email |-> e, password |-> p, confirmPassword |-> c] :
        u \in {Empty, nameAsh}, e \in {Empty, badEmail, goodEmail},
        p \in Passwords, c \in Passwords}

\* the dialog once checkAuth has failed and the user has typed into one tab
InitTyped ==
    /\ user = NULL
    /\ isLoading = FALSE
    /\ value = ProviderValue(NULL, FALSE)
    /\ storage = EmptyStorage
    /\ boot = "done"
    /\ inflight = [k \in CallKinds |-> 0]
    /\ logouts = 0
    /\ \/ /\ activeTab = "login"
          /\ loginForm \in TypedLoginForms
          /\ registerForm = [username |-> Empty, email |-> Empty,
                             password |-> Empty, confirmPassword |-> Empty]
       \/ /\ activeTab = "register"
          /\ loginForm = [email |-> Empty, password |-> Empty]
          /\ registerForm \in TypedRegisterForms
    /\ formErrors = NoErrors
    /\ serverError = NULL
    /\ isOpen = TRUE
    /\ ev = NoEvent

\* the validators applied by the submit handlers to the typed texts
NextValidate ==
    \/ HandleLoginSubmit
    \/ HandleRegisterSubmit

SpecValidate == InitTyped /\ [][NextValidate]_vars

----------------------------------------------------------------------------
(* Properties *)

\* a response of the login endpoint that carries a token
CarriesToken(res) ==
    /\ res.ok
    /\ res.data.type = "object"
    /\ res.data.token.type = "string"
    /\ res.data.token.val # ""

\* a response that carries a user object
CarriesUser(res) ==
    /\ res.ok
    /\ res.data.type = "object"
    /\ res.data.user.type = "object"

IsFailureToast(t, title) == t.variant = "destructive" /\ t.title = title
Mentions(t, word) == \E i \in 1..Len(t.description) : t.description[i] = word

\* C1: in every reachable state the exposed isAuthenticated flag is true
\* exactly when the held user is a User (neither null nor undefined), and the
\* exposed user is the held user
C1_IsAuthenticatedIffUser ==
    /\ value.user = user
    /\ value.isAuthenticated <=> user \in Users

C1_Witness ==
    /\ ev.op = "loginSettled"
    /\ user = misty
    /\ value.isAuthenticated

\* C2: a login whose response arrives without a token writes nothing to
\* storage, leaves the user as it was, emits exactly one notification, a
\* failure one, and rejects
C2_NoTokenIsFailure ==
    [][(ev'.op = "loginSettled" /\ ev'.input.ok /\ ~CarriesToken(ev'.input))
        => /\ storage' = storage
           /\ user' = user
           /\ Len(ev'.toasts) = 1
           /\ IsFailureToast(ev'.toasts[1], "Login failed")
           /\ ev'.outcome = "rejected"]_vars

C2_Witness ==
    /\ ev.op = "loginSettled"
    /\ ev.input.ok
    /\ ev.input.data.type = "object"
    /\ ~CarriesToken(ev.input)
    /\ ev.outcome = "rejected"
    /\ getItem(storage, "token") = Str("t2")
    /\ user = misty

\* C5: a login whose response carries a token and a user stores the token
\* under key `token`, adopts the user, emits exactly one notification, a
\* success one naming the user, and resolves
C5_LoginSuccess ==
    [][(ev'.op = "loginSettled" /\ CarriesToken(ev'.input) /\ CarriesUser(ev'.input))
        => /\ getItem(storage', "token") = ev'.input.data.token
           /\ user' = ev'.input.data.user
           /\ Len(ev'.toasts) = 1
           /\ ev'.toasts[1].variant = "default"
           /\ Mentions(ev'.toasts[1], ev'.input.data.user.username)
           /\ ev'.outcome = "resolved"]_vars

C5_Witness ==
    /\ ev.op = "loginSettled"
    /\ ev.input = Fulfilled(Data(Str("t1"), ash))
    /\ getItem(storage, "token") = Str("t1")
    /\ user = ash
    /\ ev.outcome = "resolved"

\* the keys of the login rules a form violates
ViolatedLoginRules(form) == {k \in {"email", "password"} : form[k] = Empty}

\* some text without white space, "@", such a text, ".", such a text
\* occurs in s
HasEmailShape(s) ==
    \E i, j \in 1..Len(s) :
        /\ s[i] = "@"
        /\ s[j] = "."
        /\ 1 < i
        /\ i + 1 < j
        /\ j < Len(s)
        /\ ~IsSpace(s[i - 1])
        /\ \A k \in (i + 1)..(j - 1) : ~IsSpace(s[k])
        /\ ~IsSpace(s[j + 1])

\* the keys of the register rules a form violates
ViolatedRegisterRules(form) ==
    (IF form.username = Empty THEN {"username"} ELSE {}) \cup
    (IF form.email = Empty \/ ~HasEmailShape(form.email) THEN {"email"} ELSE {}) \cup
    (IF Len(form.password) < 6 THEN {"password"} ELSE {}) \cup
    (IF form.confirmPassword # form.password THEN {"confirmPassword"} ELSE {})

\* C3: a submit with an empty required field issues no network call and
\* leaves an error map whose keys are exactly those of the violated rules
C3_EmptyFieldBlocksSubmit ==
    [][/\ (ev'.op = "handleLoginSubmit"
            /\ (loginForm.email = Empty \/ loginForm.password = Empty))
           => /\ ev'.posted = <<>>
              /\ inflight' = inflight
              /\ DOMAIN formErrors' = ViolatedLoginRules(loginForm)
       /\ (ev'.op = "handleRegisterSubmit"
            /\ (registerForm.username = Empty \/ registerForm.email = Empty
                    \/ registerForm.password = Empty))
           => /\ ev'.posted = <<>>
              /\ inflight' = inflight
              /\ DOMAIN formErrors' = ViolatedRegisterRules(registerForm)]_vars

C3_Witness ==
    /\ ev.op = "handleRegisterSubmit"
    /\ registerForm = [username |-> Empty, email |-> goodEmail,
                       password |-> pw6, confirmPassword |-> pw6]
    /\ DOMAIN formErrors = {"username"}
    /\ ev.posted = <<>>
    /\ InFlightCount = 0

\* C4: when mockApiService.logout() fails, the run that handles the failure
\* leaves the user as it was and emits exactly one notification, a failure
\* one; when it succeeds the user becomes null and "Logged out" is notified
C4_LogoutFailureKeepsUser ==
    [][ev'.op = "logoutSettled"
        => IF ev'.input.ok
           THEN /\ user' = NULL
                /\ Len(ev'.toasts) = 1
                /\ ev'.toasts[1].title = "Logged out"
           ELSE /\ user' = user
                /\ Len(ev'.toasts) = 1
                /\ IsFailureToast(ev'.toasts[1], "Logout failed")]_vars

C4_Witness ==
    /\ ev.op = "logoutSettled"
    /\ ~ev.input.ok
    /\ user = ash
    /\ Len(ev.toasts) = 1

\* C6: login and register set loading to true when they start and to false
\* when they finish, whatever the response was
C6_LoadingSetAndCleared ==
    [][/\ ev'.op \in {"login", "register"} => isLoading' /\ value'.isLoading
       /\ ev'.op \in {"loginSettled", "registerSettled"}
           => ~isLoading' /\ ~value'.isLoading]_vars

C6_Witness ==
    /\ ev.op = "loginSettled"
    /\ ev.input = Fulfilled(Data(Str("t1"), UNDEFINED))
    /\ ev.outcome = "rejected"
    /\ ~isLoading

\* a response on which login / register fails
FailedResponse(op, res) ==
    \/ ~res.ok
    \/ ~CarriesUser(res)
    \/ op = "loginSettled" /\ ~CarriesToken(res)

\* C7: a failed login or register emits exactly one notification, a failure
\* one, and rejects; the submit handler that awaited it then sets a
\* non-empty server error, does not call onClose and leaves the dialog open
C7_FailureToastAndInlineError ==
    [][(ev'.op \in {"loginSettled", "registerSettled"}
            /\ FailedResponse(ev'.op, ev'.input))
        => /\ Len(ev'.toasts) = 1
           /\ ev'.toasts[1].variant = "destructive"
           /\ ev'.outcome = "rejected"
           /\ ev'.caller = "form"
               => /\ serverError'.type = "string"
                  /\ serverError'.val # ""
                  /\ ev'.onClose = 0
                  /\ isOpen' = isOpen]_vars

C7_Witness ==
    /\ ev.op = "registerSettled"
    /\ ev.caller = "form"
    /\ ev.outcome = "rejected"
    /\ Len(ev.toasts) = 1
    /\ serverError = Str("User already exists")
    /\ isOpen

\* what a tab shows: its fields, the errors under them, the server error
LoginTabView ==
    [fields |-> loginForm,
     errors |-> [k \in DOMAIN formErrors \cap {"email", "password"} |-> formErrors[k]],
     serverError |-> serverError]
RegisterTabView ==
    [fields |-> registerForm,
     errors |-> [k \in DOMAIN formErrors \cap
                        {"username", "email", "password", "confirmPassword"}
                    |-> formErrors[k]],
     serverError |-> serverError]

\* C8: switching the tab changes the active tab only, and editing or
\* submitting on one tab changes nothing of what the other tab shows
C8_TabsIndependent ==
    [][/\ ev'.op = "setActiveTab"
           => UNCHANGED <<loginForm, registerForm, formErrors, serverError>>
       /\ (ev'.op \in {"setLoginForm", "handleLoginSubmit"}
            \/ (ev'.op = "loginSettled" /\ ev'.caller = "form"))
           => RegisterTabView' = RegisterTabView
       /\ (ev'.op \in {"setRegisterForm", "handleRegisterSubmit"}
            \/ (ev'.op = "registerSettled" /\ ev'.caller = "form"))
           => LoginTabView' = LoginTabView]_vars

\* C9: the register validator reports `username` iff the username is empty,
\* `email` iff the e-mail is empty or lacks the text@text.text shape,
\* `password` iff the password has fewer than 6 characters, and
\* `confirmPassword` iff the confirmation differs from the password
C9_RegisterValidator ==
    ev.op = "handleRegisterSubmit"
    => /\ DOMAIN formErrors \subseteq {"username", "email", "password", "confirmPassword"}
       /\ "username" \in DOMAIN formErrors <=> registerForm.username = Empty
       /\ "email" \in DOMAIN formErrors
            <=> (registerForm.email = Empty \/ ~HasEmailShape(registerForm.email))
       /\ "password" \in DOMAIN formErrors
            <=> (registerForm.password = Empty \/ Len(registerForm.password) < 6)
       /\ "confirmPassword" \in DOMAIN formErrors
            <=> registerForm.confirmPassword # registerForm.password
       /\ (registerForm.password = pw6 => "password" \notin DOMAIN formErrors)
       /\ (registerForm.password = pw3 => "password" \in DOMAIN formErrors)

C9_Witness ==
    /\ ev.op = "handleRegisterSubmit"
    /\ registerForm = [username |-> nameAsh, email |-> goodEmail,
                       password |-> pw6, confirmPassword |-> pw6g]
    /\ DOMAIN formErrors = {"confirmPassword"}

\* C10: updateUser(u) makes u the held user and its serialization the value
\* of storage key `user`, and changes nothing else: no network call, no
\* notification, loading and storage key `token` as they were
C10_UpdateUserFrame ==
    [][ev'.op = "updateUser"
        => /\ user' = ev'.input
           /\ value'.user = ev'.input
           /\ getItem(storage', "user") = Str(JSONstringify(ev'.input))
           /\ JSONparse(storage'["user"]) = ev'.input
           /\ getItem(storage', "token") = getItem(storage, "token")
           /\ DOMAIN storage' = DOMAIN storage \cup {"user"}
           /\ ev'.posted = <<>>
           /\ ev'.toasts = <<>>
           /\ UNCHANGED <<isLoading, boot, inflight, logouts>>
           /\ UNCHANGED formVars]_vars

C10_Witness ==
    /\ ev.op = "updateUser"
    /\ user = misty
    /\ isLoading
    /\ InFlightCount > 0
    /\ getItem(storage, "token") = Str("t1")
    /\ getItem(storage, "user") = Str(JSONstringify(misty))

\* the value of a storage key changes in this step
Written(key) == getItem(storage', key) # getItem(storage, key)

\* C11: key `user` is written by updateUser only and key `token` only by a
\* login that succeeds with a token in its response; every other run,
\* failed logins included, leaves both keys as they were
C11_StorageWriters ==
    [][/\ Written("user") => ev'.op = "updateUser"
       /\ Written("token")
           => /\ ev'.op = "loginSettled"
              /\ CarriesToken(ev'.input)
              /\ ev'.outcome = "resolved"
       /\ DOMAIN storage \subseteq DOMAIN storage']_vars

\* C12: checkAuth runs once, with loading true from the start; when
\* getCurrentUser() settles loading becomes false; a resolved lookup makes
\* its result the held user, a rejected one leaves the user as it was;
\* neither notifies, and the promise of checkAuth is never rejected
C12_Bootstrap ==
    /\ (boot = "pending" /\ ev.op = "mount") => (isLoading /\ user = NULL)
    /\ [][/\ ev'.op = "checkAuth"
              => /\ boot = "pending" /\ boot' = "done"
                 /\ ~isLoading' /\ ~value'.isLoading
                 /\ ev'.toasts = <<>>
                 /\ ev'.outcome = "resolved"
                 /\ IF ev'.input.ok THEN user' = ev'.input.data ELSE user' = user
                 /\ UNCHANGED <<storage, inflight, logouts>>
          /\ boot' # boot => ev'.op = "checkAuth"]_vars

C12_Witness ==
    /\ ev.op = "checkAuth"
    /\ ~ev.input.ok
    /\ boot = "done"
    /\ ~isLoading
    /\ user = NULL

\* a call issued by a submit of the dialog has not been answered yet
FormCallInFlight ==
    inflight[<<"login", "form">>] + inflight[<<"register", "form">>] > 0

SubmitOps == {"handleLoginSubmit", "handleRegisterSubmit"}
SettledOps == {"loginSettled", "registerSettled"}

\* C13: every submit on either tab, blocked or not, sets the server error
\* to none and replaces the error map by the one just computed, and posts
\* only with an empty map; afterwards a server error is shown again only
\* by the failure of a call the dialog issued, so none is shown while such
\* a call is awaited
C13_SubmitClearsErrors ==
    /\ [][/\ ev'.op = "handleLoginSubmit"
              => /\ serverError' = NULL
                 /\ formErrors' = validateLoginForm(loginForm)
                 /\ ev'.posted # <<>> <=> DOMAIN formErrors' = {}
          /\ ev'.op = "handleRegisterSubmit"
              => /\ serverError' = NULL
                 /\ formErrors' = validateRegisterForm(registerForm)
                 /\ ev'.posted # <<>> <=> DOMAIN formErrors' = {}
          /\ (serverError' # NULL /\ ev'.op \notin SettledOps)
              => /\ ev'.op \notin SubmitOps
                 /\ serverError' = serverError
          /\ (serverError' # NULL /\ ev'.op \in SettledOps)
              => /\ ev'.caller = "form"
                 /\ ev'.outcome = "rejected"]_vars
    /\ [](FormCallInFlight => serverError = NULL)

\* a submit has gone out and nothing of an earlier failure is on display
C13_Witness ==
    /\ ev.op \in SubmitOps
    /\ ev.posted # <<>>
    /\ FormCallInFlight
    /\ serverError = NULL
    /\ formErrors = NoErrors

\* the submit just handled went out to the network
Submitting == ev.op \in SubmitOps /\ ev.posted # <<>>

\* the answer to a call of the dialog has just been handled
FormSettled == ev.op \in SettledOps /\ ev.caller = "form"

\* C14: a submit is either blocked (errors shown, nothing posted, no call
\* issued) or goes out; when every call is answered a submit that went out
\* ends in success (onClose called once, dialog closed, no server error
\* set) or in failure (server error shown, onClose not called, dialog left
\* open); and with checkAuth done and no call in flight loading is false
C14_SubmitStateMachine ==
    /\ [][/\ ev'.op \in SubmitOps
              => IF DOMAIN formErrors' = {}
                 THEN /\ ev'.posted # <<>>
                      /\ InFlightCount' = InFlightCount + 1
                      /\ isLoading'
                      /\ ev'.onClose = 0
                 ELSE /\ ev'.posted = <<>>
                      /\ inflight' = inflight
                      /\ ev'.onClose = 0
                      /\ isOpen' = isOpen
          /\ (ev'.op \in SettledOps /\ ev'.caller = "form")
              => /\ InFlightCount' = InFlightCount - 1
                 /\ IF ev'.outcome = "resolved"
                    THEN /\ ev'.onClose = 1
                         /\ ~isOpen'
                         /\ serverError' = serverError
                    ELSE /\ ev'.onClose = 0
                         /\ isOpen' = isOpen
                         /\ serverError' # NULL]_vars
    /\ []((InFlightCount = 0 /\ boot = "done") => (~isLoading /\ ~value.isLoading))
    /\ (Submitting ~> FormSettled)

\* a submit that went out has ended in success and the dialog is closed
C14_Witness ==
    /\ FormSettled
    /\ ev.op = "loginSettled"
    /\ ev.outcome = "resolved"
    /\ ev.onClose = 1
    /\ ~isOpen
    /\ InFlightCount = 0
    /\ ~isLoading

\* C15: a login or register that rejects to its caller, whatever the shape
\* of the response, leaves the held user and both storage keys as they
\* were just before the response was handled
C15_FailureAtomicity ==
    [][(ev'.op \in SettledOps /\ ev'.outcome = "rejected")
        => /\ user' = user
           /\ getItem(storage', "token") = getItem(storage, "token")
           /\ getItem(storage', "user") = getItem(storage, "user")]_vars

\* C16: in every reachable state with a login or register call issued and
\* not yet answered, loading is true and the submit buttons are disabled
C16_LoadingTracksInFlight ==
    InFlightCount > 0 => (isLoading /\ value.isLoading /\ ~SubmitEnabled)

\* C17: when login, register or updateUser has made some user the held
\* user before getCurrentUser() settles, the end of checkAuth leaves that
\* user the held user
C17_BootstrapKeepsNewerUser ==
    [][(ev'.op = "checkAuth" /\ user \in Users) => user' = user]_vars

\* a login was answered with success while another login was still awaited
FirstOfOverlappingLogins ==
    /\ ev.op = "loginSettled"
    /\ ev.outcome = "resolved"
    /\ inflight[<<"login", ev.caller>>] > 0

\* C18: of two logins in flight together that both succeed, in whichever
\* order they are answered, the one answered last supplies both the token
\* in storage and the held user; the token of one response is never left
\* with the user of the other
C18_OverlappingLoginsPaired ==
    [][(/\ FirstOfOverlappingLogins
        /\ ev'.op = "loginSettled"
        /\ ev'.outcome = "resolved")
        => /\ getItem(storage', "token") = ev'.input.data.token
           /\ user' = ev'.input.data.user
           /\ \E res \in LoginResponses :
                  /\ CarriesToken(res) /\ CarriesUser(res)
                  /\ getItem(storage', "token") = res.data.token
                  /\ user' = res.data.user]_vars

\* the first of two overlapping logins has been answered with success and
\* its token and user are in place while the second is still awaited
C18_Witness ==
    /\ FirstOfOverlappingLogins
    /\ ev.input = Fulfilled(Data(Str("t2"), misty))
    /\ getItem(storage, "token") = Str("t2")
    /\ user = misty
    /\ InFlightCount = 1

\* C19: starting from empty storage, in every reachable state in which key
\* `token` holds a token the held user is a user; after a successful
\* logout no token is left
C19_TokenImpliesSession ==
    getItem(storage, "token") # NULL => user \in Users

====
